---- MODULE Spec2Model ----
(***************************************************************************)
(* A model of pdf_parser/parser.py: parse_pdf_to_markdown, save_markdown   *)
(* and the command-line entry point main.                                  *)
(*                                                                         *)
(* Text is a sequence of tokens.  A token is one character ("a", "\n", a   *)
(* decimal digit) or one fixed piece of text that the code only ever       *)
(* copies as a whole ("# Page ", "unknown", the marker of a page).         *)
(* A dict is a function whose DOMAIN is the set of keys that are present.  *)
(***************************************************************************)
EXTENDS Integers, Sequences, FiniteSets, TLC

VARIABLES
    pc,        \* "idle", "returned", or main's position
    fs,        \* the destination: [dirExists, fileExists, content]
    diskOk,    \* whether the file system lets the destination be written
    call,      \* the library call made: its name and its arguments
    ret,       \* what that call returned or raised
    conv,      \* the invocations of pymupdf4llm.to_markdown
    args,      \* main: the parsed command line
    md_output, \* main: the local variable md_output
    stdout,    \* main: the lines printed to standard output
    stderr,    \* main: the lines printed to standard error
    exitCode   \* main: the exit code of the process, -1 while it runs

vars == <<pc, fs, diskOk, call, ret, conv, args, md_output, stdout, stderr, exitCode>>

-----------------------------------------------------------------------------
(* Bounds *)

MaxPages == 3      \* documents have 0..MaxPages pages
MaxPagesLen == 2   \* a pages list names at most this many indices
MaxRecords == 2    \* a list of page records has at most this many records

-----------------------------------------------------------------------------
(* Text *)

NL == "\n"
HeaderPrefix == "# Page "

DigitChar == <<"0", "1", "2", "3", "4", "5", "6", "7", "8", "9">>

RECURSIVE Digits(_)
Digits(n) ==
    IF n < 10 THEN <<DigitChar[n + 1]>>
    ELSE Digits(n \div 10) \o <<DigitChar[(n % 10) + 1]>>

\* str(n) of an int, as an f-string formats it
IntStr(n) == IF n < 0 THEN <<"-">> \o Digits(-n) ELSE Digits(n)

RECURSIVE Concat(_)
Concat(ss) == IF ss = <<>> THEN <<>> ELSE Head(ss) \o Concat(Tail(ss))

\* t occurs in s at position i
OccursAt(s, i, t) ==
    i + Len(t) - 1 <= Len(s) /\ SubSeq(s, i, i + Len(t) - 1) = t

\* t occurs in s as a contiguous piece
Contains(s, t) == \E i \in 1..Len(s) : OccursAt(s, i, t)

-----------------------------------------------------------------------------
(* Values *)

EmptyDict == [k \in {} |-> 0]

\* dict.get(key, default)
DictGet(d, key, default) == IF key \in DOMAIN d THEN d[key] ELSE default

\* Union[str, List[dict]]: a str or a list; "none" before anything was returned
StrValue(s) == [type |-> "str", str |-> s, list |-> <<>>]
ListValue(l) == [type |-> "list", str |-> <<>>, list |-> l]
NoValue == [type |-> "none", str |-> <<>>, list |-> <<>>]

\* Union[List[int], None]
NonePages == [isNone |-> TRUE, list |-> <<>>]
PagesList(l) == [isNone |-> FALSE, list |-> l]

Returned(v) == [status |-> "ok", exc |-> "", value |-> v]
Raised(e) == [status |-> "raise", exc |-> e, value |-> NoValue]
NoResult == [status |-> "none", exc |-> "", value |-> NoValue]

\* fitz.open(pdf_path) raises, or gives a document of total_pages pages
NoDocument == [opens |-> FALSE, total_pages |-> 0]
Document(n) == [opens |-> TRUE, total_pages |-> n]

NoCall ==
    [op |-> "none", doc |-> NoDocument, pages |-> NonePages,
     md_output |-> NoValue, page_chunks |-> FALSE, dirBefore |-> FALSE]

NoArgs == [valid |-> FALSE, doc |-> NoDocument, pages |-> NonePages, page_chunks |-> FALSE]

-----------------------------------------------------------------------------
(* pymupdf4llm.to_markdown, as parse_pdf_to_markdown uses it *)

\* the Markdown of the page with 0-based index p: a marker no other page has
PageText(p) == <<"text of page ">> \o IntStr(p) \o <<NL, NL>>

\* the record of page p in chunked output; the metadata counts pages from 1
PageChunk(p) ==
    [k \in {"metadata", "text"} |->
        IF k = "metadata" THEN [m \in {"page"} |-> p + 1] ELSE PageText(p)]

\* one page after the other, in the order of the list it is given
to_markdown(pages, page_chunks) ==
    IF page_chunks
    THEN ListValue([i \in 1..Len(pages) |-> PageChunk(pages[i])])
    ELSE StrValue(Concat([i \in 1..Len(pages) |-> PageText(pages[i])]))

-----------------------------------------------------------------------------
(* parse_pdf_to_markdown *)

\* the bounds check with the upper bound included
ValidPages_UpToTotal(pages, total_pages) ==
    LET Valid(p) == 0 <= p /\ p <= total_pages IN SelectSeq(pages, Valid)

\* [p for p in pages if 0 <= p < total_pages]
ValidPages(pages, total_pages) ==
    LET Valid(p) == 0 <= p /\ p < total_pages IN SelectSeq(pages, Valid)

\* the default selection counted from 1, as the metadata counts
Range_OneBased(total_pages) == [i \in 1..total_pages |-> i]

\* list(range(total_pages))
Range(total_pages) == [i \in 1..total_pages |-> i - 1]

\* the test `pages is not None` in the place of `pages`
Truthy_NotNone(pages) == ~pages.isNone

\* `if pages:` is false of None and of the empty list
Truthy(pages) == ~pages.isNone /\ pages.list # <<>>

\* the result of the call and the list handed to to_markdown, if it got there
parse_pdf_to_markdown(doc, pages, page_chunks) ==
    IF ~doc.opens
    THEN [result |-> Raised("FileDataError"), converted |-> <<>>]
    ELSE LET total_pages == doc.total_pages
             filtered == ValidPages(pages.list, total_pages)
         IN  IF Truthy(pages) /\ filtered = <<>>
             THEN [result |-> Raised("ValueError"), converted |-> <<>>]
             ELSE LET selected == IF Truthy(pages) THEN filtered ELSE Range(total_pages)
                  IN  [result |-> Returned(to_markdown(selected, page_chunks)),
                       converted |-> <<selected>>]

-----------------------------------------------------------------------------
(* save_markdown *)

\* the section with a single newline after the body: no blank line
PageSection_OneNewline(page_dict) ==
    LET metadata == DictGet(page_dict, "metadata", EmptyDict)
        page_number ==
            IF "page" \in DOMAIN metadata THEN IntStr(metadata["page"]) ELSE <<"unknown">>
    IN  <<HeaderPrefix>> \o page_number \o <<NL, NL>>
        \o DictGet(page_dict, "text", <<>>) \o <<NL>>

\* the section with .get("page") left without its default
PageSection_NoDefault(page_dict) ==
    LET metadata == DictGet(page_dict, "metadata", EmptyDict)
        page_number ==
            IF "page" \in DOMAIN metadata THEN IntStr(metadata["page"]) ELSE <<"None">>
    IN  <<HeaderPrefix>> \o page_number \o <<NL, NL>>
        \o DictGet(page_dict, "text", <<>>) \o <<NL, NL>>

\* f"# Page {page_number}\n\n{page_dict.get('text', '')}\n\n" of one record
PageSection(page_dict) ==
    LET metadata == DictGet(page_dict, "metadata", EmptyDict)
        page_number ==
            IF "page" \in DOMAIN metadata THEN IntStr(metadata["page"]) ELSE <<"unknown">>
    IN  <<HeaderPrefix>> \o page_number \o <<NL, NL>>
        \o DictGet(page_dict, "text", <<>>) \o <<NL, NL>>

\* the loop over md_output that builds full_md
FullMd(records) == Concat([i \in 1..Len(records) |-> PageSection(records[i])])

\* os.linesep of the platform: the model is of a POSIX platform
linesep == <<NL>>

\* text-mode writing: every "\n" of the data is written as os.linesep
RECURSIVE TranslateNewlines(_)
TranslateNewlines(data) ==
    IF data = <<>> THEN <<>>
    ELSE (IF Head(data) = NL THEN linesep ELSE <<Head(data)>>)
         \o TranslateNewlines(Tail(data))

\* Path.write_text(data, encoding="utf-8"): a TypeError unless data is a str,
\* and then nothing is opened; an OSError if the file cannot be written
WriteText(f, ok, data) ==
    IF data.type # "str" THEN [result |-> Raised("TypeError"), fs |-> f]
    ELSE IF ~ok THEN [result |-> Raised("OSError"), fs |-> f]
    ELSE [result |-> Returned(NoValue),
          fs |-> [f EXCEPT !.fileExists = TRUE, !.content = TranslateNewlines(data.str)]]

\* Path.mkdir(parents=True, exist_ok=True)
Mkdir(f, ok) ==
    IF f.dirExists THEN [result |-> Returned(NoValue), fs |-> f]
    ELSE IF ~ok THEN [result |-> Raised("OSError"), fs |-> f]
    ELSE [result |-> Returned(NoValue), fs |-> [f EXCEPT !.dirExists = TRUE]]

\* save_markdown with `if page_chunks:` alone: a str is then taken for a list
\* of records, and its characters have no get
save_markdown_NoIsinstance(f, ok, output, page_chunks) ==
    LET made == Mkdir(f, ok)
    IN  IF made.result.status = "raise" THEN made
        ELSE IF page_chunks /\ output.type = "str" /\ output.str # <<>>
        THEN [result |-> Raised("AttributeError"), fs |-> made.fs]
        ELSE WriteText(made.fs, ok,
                       IF page_chunks THEN StrValue(FullMd(output.list)) ELSE output)

\* the result of the call and the file system it leaves
save_markdown(f, ok, output, page_chunks) ==
    LET made == Mkdir(f, ok)
        data == IF page_chunks /\ output.type = "list"
                THEN StrValue(FullMd(output.list))
                ELSE output
    IN  IF made.result.status = "raise" THEN made
        ELSE WriteText(made.fs, ok, data)

-----------------------------------------------------------------------------
(* Inputs *)

RECURSIVE SeqsUpTo(_, _)
SeqsUpTo(S, n) ==
    IF n = 0 THEN {<<>>}
    ELSE LET shorter == SeqsUpTo(S, n - 1)
         IN  shorter \cup {Append(s, x) : s \in {t \in shorter : Len(t) = n - 1}, x \in S}

Docs == {NoDocument} \cup {Document(n) : n \in 0..MaxPages}

\* indices below 0, inside and beyond every document
PageIndices == (-1)..(MaxPages + 1)
PagesArgs == {NonePages} \cup {PagesList(l) : l \in SeqsUpTo(PageIndices, MaxPagesLen)}
\* `--pages` has nargs="+": absent, or at least one index
CliPagesArgs == {p \in PagesArgs : p.isNone \/ p.list # <<>>}

Texts ==
    { <<>>, <<"a">>, <<"a", NL>>, <<"a", NL, "b">>, <<NL, "a">>, <<HeaderPrefix, "7">> }

Metadatas == {EmptyDict} \cup {[m \in {"page"} |-> n] : n \in {1, 2, 12}}

PageDict(hasMetadata, metadata, hasText, text) ==
    [k \in (IF hasMetadata THEN {"metadata"} ELSE {}) \cup (IF hasText THEN {"text"} ELSE {})
        |-> IF k = "metadata" THEN metadata ELSE text]

PageDicts ==
    {PageDict(hm, m, ht, t) : hm \in BOOLEAN, m \in Metadatas, ht \in BOOLEAN, t \in Texts}

Outputs ==
    {StrValue(t) : t \in Texts} \cup {ListValue(l) : l \in SeqsUpTo(PageDicts, MaxRecords)}

FsStates ==
    { [dirExists |-> FALSE, fileExists |-> FALSE, content |-> <<>>],
      [dirExists |-> TRUE, fileExists |-> FALSE, content |-> <<>>],
      [dirExists |-> TRUE, fileExists |-> TRUE, content |-> <<"old">>] }

-----------------------------------------------------------------------------
(* The state machine *)

Init ==
    /\ pc = "idle"
    /\ fs \in FsStates
    /\ diskOk \in BOOLEAN
    /\ call = NoCall
    /\ ret = NoResult
    /\ conv = <<>>
    /\ args = NoArgs
    /\ md_output = NoValue
    /\ stdout = <<>>
    /\ stderr = <<>>
    /\ exitCode = -1

\* a caller of the library calls parse_pdf_to_markdown(pdf_path, pages, page_chunks)
ParseCall ==
    /\ pc = "idle"
    /\ \E doc \in Docs, pages \in PagesArgs, page_chunks \in BOOLEAN :
        LET r == parse_pdf_to_markdown(doc, pages, page_chunks)
        IN  /\ call' = [NoCall EXCEPT !.op = "parse", !.doc = doc, !.pages = pages,
                                      !.page_chunks = page_chunks]
            /\ ret' = r.result
            /\ conv' = r.converted
    /\ pc' = "returned"
    /\ UNCHANGED <<fs, diskOk, args, md_output, stdout, stderr, exitCode>>

\* a caller of the library calls save_markdown(md_output, output_path, page_chunks)
SaveCall ==
    /\ pc = "idle"
    /\ \E output \in Outputs, page_chunks \in BOOLEAN :
        LET r == save_markdown(fs, diskOk, output, page_chunks)
        IN  /\ call' = [NoCall EXCEPT !.op = "save", !.md_output = output,
                                      !.page_chunks = page_chunks,
                                      !.dirBefore = fs.dirExists]
            /\ ret' = r.result
            /\ fs' = r.fs
    /\ pc' = "returned"
    /\ UNCHANGED <<diskOk, conv, args, md_output, stdout, stderr, exitCode>>

\* main: parser_cli.parse_args(); argparse reports a bad command line on
\* standard error and exits with code 2
MainParseArgs ==
    /\ pc = "idle"
    /\ \/ /\ args' = NoArgs
          /\ stderr' = Append(stderr, <<"usage error">>)
          /\ exitCode' = 2
          /\ pc' = "exited"
       \/ /\ \E doc \in Docs, pages \in CliPagesArgs, page_chunks \in BOOLEAN :
                args' = [valid |-> TRUE, doc |-> doc, pages |-> pages,
                         page_chunks |-> page_chunks]
          /\ pc' = "main_parse"
          /\ UNCHANGED <<stderr, exitCode>>
    /\ UNCHANGED <<fs, diskOk, call, ret, conv, md_output, stdout>>

\* main: md_output = parse_pdf_to_markdown(...), inside the try
MainParse ==
    /\ pc = "main_parse"
    /\ LET r == parse_pdf_to_markdown(args.doc, args.pages, args.page_chunks)
       IN  /\ ret' = r.result
           /\ conv' = r.converted
           /\ md_output' = r.result.value
           /\ pc' = IF r.result.status = "raise" THEN "main_except" ELSE "main_save"
    /\ UNCHANGED <<fs, diskOk, call, args, stdout, stderr, exitCode>>

\* main: save_markdown(md_output, args.output, page_chunks=args.page_chunks)
MainSave ==
    /\ pc = "main_save"
    /\ LET r == save_markdown(fs, diskOk, md_output, args.page_chunks)
       IN  /\ ret' = r.result
           /\ fs' = r.fs
           /\ pc' = IF r.result.status = "raise" THEN "main_except" ELSE "main_report"
    /\ UNCHANGED <<diskOk, call, conv, args, md_output, stdout, stderr, exitCode>>

\* main: the two print calls after the save; main returns and the process ends
MainReport ==
    /\ pc = "main_report"
    /\ stdout' = stdout \o << <<"Successfully processed">>, <<"Output saved to">> >>
    /\ exitCode' = 0
    /\ pc' = "exited"
    /\ UNCHANGED <<fs, diskOk, call, ret, conv, args, md_output, stderr>>

\* main: except Exception as e: print(f"An error occurred: {e}"); sys.exit(1)
MainExcept ==
    /\ pc = "main_except"
    /\ stdout' = Append(stdout, <<"An error occurred: ", ret.exc>>)
    /\ exitCode' = 1
    /\ pc' = "exited"
    /\ UNCHANGED <<fs, diskOk, call, ret, conv, args, md_output, stderr>>

Next ==
    \/ ParseCall
    \/ SaveCall
    \/ MainParseArgs
    \/ MainParse
    \/ MainSave
    \/ MainReport
    \/ MainExcept

Spec == Init /\ [][Next]_vars

-----------------------------------------------------------------------------
(* What the claims speak of *)

ParseReturned == pc = "returned" /\ call.op = "parse" /\ call.doc.opens
SaveReturned == pc = "returned" /\ call.op = "save"

InRange(p, total_pages) == 0 <= p /\ p < total_pages

\* how often the pages list of the call names index p
Occurrences(list, p) == Cardinality({i \in 1..Len(list) : list[i] = p})

SomeValid(list, total_pages) == \E i \in 1..Len(list) : InRange(list[i], total_pages)

\* the text t occurs in the output, whichever of the two shapes it has
OutputContains(v, t) ==
    IF v.type = "str" THEN Contains(v.str, t)
    ELSE \E i \in 1..Len(v.list) : Contains(v.list[i]["text"], t)

\* C1: a non-empty pages list with no index in 0..N-1 makes
\* parse_pdf_to_markdown raise the no-valid-pages ValueError; to_markdown is
\* never invoked and nothing is returned.
C1_NoValidPagesRaises ==
    (/\ ParseReturned
     /\ ~call.pages.isNone
     /\ call.pages.list # <<>>
     /\ ~SomeValid(call.pages.list, call.doc.total_pages))
    => (ret.status = "raise" /\ ret.exc = "ValueError" /\ conv = <<>>
        /\ ret.value = NoValue)

C1_Witness ==
    /\ ParseReturned
    /\ call.doc.total_pages = 3
    /\ call.pages = PagesList(<<4>>)
    /\ ret.exc = "ValueError"

\* C2: when the pages list names at least one index in 0..N-1 the call
\* succeeds; the output holds the text of every page that is named and in
\* range, and the text of no other page, so the indices out of range were
\* dropped without an error.
C2_OnlyRequestedPages ==
    (/\ ParseReturned
     /\ ~call.pages.isNone
     /\ SomeValid(call.pages.list, call.doc.total_pages))
    => /\ ret.status = "ok"
       /\ \A p \in PageIndices :
            OutputContains(ret.value, PageText(p))
            <=> (InRange(p, call.doc.total_pages) /\ Occurrences(call.pages.list, p) > 0)

C2_Witness ==
    /\ ParseReturned
    /\ call.doc.total_pages = 3
    /\ call.pages = PagesList(<<1, 4>>)
    /\ ret.status = "ok"
    /\ ret.value.type = "str"
    /\ Contains(ret.value.str, PageText(1))

C6_AscendingAssembly ==
    (ParseReturned /\ ret.status = "ok")
    => IF ret.value.type = "list"
       THEN \A i, j \in 1..Len(ret.value.list) :
                i < j => ret.value.list[i]["metadata"]["page"]
                         <= ret.value.list[j]["metadata"]["page"]
       ELSE \A i, j \in 1..Len(ret.value.str) : \A p, q \in PageIndices :
                (/\ i < j
                 /\ OccursAt(ret.value.str, i, PageText(p))
                 /\ OccursAt(ret.value.str, j, PageText(q)))
                => p <= q

\* C10: when pages is None or the empty list no error is raised and
\* to_markdown is invoked once with all of 0..N-1 in ascending order; for
\* N = 0 it is invoked with the empty selection.
C10_NoFilterSelectsAll ==
    (ParseReturned /\ (call.pages.isNone \/ call.pages.list = <<>>))
    => /\ ret.status = "ok"
       /\ Len(conv) = 1
       /\ Len(conv[1]) = call.doc.total_pages
       /\ \A i \in 1..Len(conv[1]) : conv[1][i] = i - 1

C10_Witness ==
    /\ ParseReturned
    /\ call.pages = PagesList(<<>>)
    /\ call.doc.total_pages = 0
    /\ ret.status = "ok"
    /\ conv = << <<>> >>

-----------------------------------------------------------------------------
(* Reading a written file line by line *)

\* the pieces of s between its newlines: k newlines make k + 1 pieces
RECURSIVE SplitLines(_, _)
SplitLines(s, cur) ==
    IF s = <<>> THEN <<cur>>
    ELSE IF Head(s) = NL THEN <<cur>> \o SplitLines(Tail(s), <<>>)
    ELSE SplitLines(Tail(s), Append(cur, Head(s)))

Pieces(s) == SplitLines(s, <<>>)

\* the lines of a file: what follows the last newline is a line only if it
\* is not empty
FileLines(s) ==
    LET ps == Pieces(s)
    IN  IF ps[Len(ps)] = <<>> THEN SubSeq(ps, 1, Len(ps) - 1) ELSE ps

IsHeader(line) == line # <<>> /\ line[1] = HeaderPrefix

IsNumber(d) == d # <<>> /\ \A i \in 1..Len(d) : \E n \in 0..9 : DigitChar[n + 1] = d[i]

DigitValue(c) == CHOOSE n \in 0..9 : DigitChar[n + 1] = c

RECURSIVE DigitsValue(_)
DigitsValue(d) ==
    IF d = <<>> THEN 0
    ELSE 10 * DigitsValue(SubSeq(d, 1, Len(d) - 1)) + DigitValue(d[Len(d)])

HasPage(page_dict) ==
    "metadata" \in DOMAIN page_dict /\ "page" \in DOMAIN page_dict["metadata"]

TextOf(page_dict) == IF "text" \in DOMAIN page_dict THEN page_dict["text"] ELSE <<>>

\* the line of the file at which the section of record i starts: a section
\* is a header line, a blank line, the body's lines and a blank line
RECURSIVE SectionStart(_, _)
SectionStart(records, i) ==
    IF i = 1 THEN 1
    ELSE SectionStart(records, i - 1) + Len(Pieces(TextOf(records[i - 1]))) + 3

SavedChunks ==
    /\ SaveReturned
    /\ call.md_output.type = "list"
    /\ call.page_chunks
    /\ ret.status = "ok"

\* the file has one header line per record
OneHeaderPerRecord ==
    LET lines == FileLines(fs.content)
    IN  Cardinality({h \in 1..Len(lines) : IsHeader(lines[h])}) = Len(call.md_output.list)

\* the numbered header lines of the file ascend
HeadersAscend ==
    LET lines == FileLines(fs.content)
        Numbered(h) == IsHeader(lines[h]) /\ IsNumber(Tail(lines[h]))
    IN  \A g, h \in 1..Len(lines) :
            (g < h /\ Numbered(g) /\ Numbered(h))
            => DigitsValue(Tail(lines[g])) <= DigitsValue(Tail(lines[h]))

\* exactly one blank line ends each body: before every later header and at the
\* end of the file there is a blank line, and before it a line that is not
OneBlankAfterEachBody ==
    LET lines == FileLines(fs.content)
        Closes(h) == h > 2 /\ lines[h - 1] = <<>> /\ lines[h - 2] # <<>>
    IN  /\ \A h \in 2..Len(lines) : IsHeader(lines[h]) => Closes(h)
        /\ Len(lines) > 0 => Closes(Len(lines) + 1)

\* C4, as the specification states it: for every list of records and every
\* body text the file has exactly one `# Page k` header per record, the
\* headers ascend in k, and exactly one blank line follows each body.
C4_AsStated ==
    SavedChunks => (OneHeaderPerRecord /\ HeadersAscend /\ OneBlankAfterEachBody)

\* the records that carry a page number are listed in ascending page order
RecordsAscend ==
    LET records == call.md_output.list
    IN  \A i, j \in 1..Len(records) :
            (i < j /\ HasPage(records[i]) /\ HasPage(records[j]))
            => records[i]["metadata"]["page"] <= records[j]["metadata"]["page"]

NoHeaderInBodies ==
    LET records == call.md_output.list
    IN  \A i \in 1..Len(records) :
            \A l \in 1..Len(Pieces(TextOf(records[i]))) :
                ~IsHeader(Pieces(TextOf(records[i]))[l])

BodiesEndInText ==
    LET records == call.md_output.list
    IN  \A i \in 1..Len(records) :
            LET ps == Pieces(TextOf(records[i])) IN ps[Len(ps)] # <<>>

\* C4, amended: for every list of records the file is, record by record in
\* the order of the list, a `# Page k` header line, a blank line, the body and
\* a blank line; one header per record, ascending headers and exactly one
\* blank line after each body hold when the records are listed in ascending
\* page order, no body has a line that starts with `# Page `, and every body
\* ends in a line that is not empty.
C4_SectionsInListOrder ==
    SavedChunks
    => LET records == call.md_output.list
           lines == FileLines(fs.content)
       IN  /\ Len(lines) = SectionStart(records, Len(records) + 1) - 1
           /\ \A i \in 1..Len(records) :
                LET start == SectionStart(records, i)
                    end == SectionStart(records, i + 1) - 1
                IN  /\ IsHeader(lines[start])
                    /\ lines[start + 1] = <<>>
                    /\ lines[end] = <<>>
           /\ (RecordsAscend /\ NoHeaderInBodies /\ BodiesEndInText)
              => (OneHeaderPerRecord /\ HeadersAscend /\ OneBlankAfterEachBody)

C4_Witness ==
    /\ SavedChunks
    /\ call.md_output.list =
         << PageDict(TRUE, [m \in {"page"} |-> 1], TRUE, <<"a">>),
            PageDict(TRUE, [m \in {"page"} |-> 2], TRUE, <<"a", NL, "b">>) >>
    /\ fs.content = <<HeaderPrefix, "1", NL, NL, "a", NL, NL,
                      HeaderPrefix, "2", NL, NL, "a", NL, "b", NL, NL>>

\* C5: given a list of page records, save_markdown writes their
\* concatenation by the page-header rule to the file, whatever the value of
\* page_chunks.
C5_ListAlwaysConcatenated ==
    (SaveReturned /\ call.md_output.type = "list" /\ diskOk)
    => /\ ret.status = "ok"
       /\ fs.fileExists
       /\ fs.content = FullMd(call.md_output.list)

\* C8: given a string, save_markdown leaves a file whose content is exactly
\* that string, for either value of page_chunks; the parent directory exists
\* afterwards, whether it had to be created or was there already.
C8_StringWrittenVerbatim ==
    (SaveReturned /\ call.md_output.type = "str" /\ diskOk)
    => /\ ret.status = "ok"
       /\ fs.dirExists
       /\ fs.fileExists
       /\ fs.content = call.md_output.str

C8_Witness ==
    /\ SaveReturned
    /\ call.md_output = StrValue(<<"a", NL, "b">>)
    /\ call.page_chunks
    /\ ~call.dirBefore
    /\ fs.dirExists
    /\ fs.content = <<"a", NL, "b">>

\* C9: in the concatenation the section of each record starts with the line
\* `# Page <n>`, n the page number of its metadata, or `# Page unknown` when
\* the record has no metadata or the metadata no page; the record's text
\* follows after a blank line in either case.
C9_HeaderNumberOrUnknown ==
    SavedChunks
    => LET records == call.md_output.list
           lines == FileLines(fs.content)
       IN  \A i \in 1..Len(records) :
             LET start == SectionStart(records, i)
                 body == Pieces(TextOf(records[i]))
             IN  /\ IsHeader(lines[start])
                 /\ IF HasPage(records[i])
                    THEN /\ IsNumber(Tail(lines[start]))
                         /\ DigitsValue(Tail(lines[start]))
                            = records[i]["metadata"]["page"]
                    ELSE Tail(lines[start]) = <<"unknown">>
                 /\ SubSeq(lines, start + 2, start + 1 + Len(body)) = body

C9_Witness ==
    /\ SavedChunks
    /\ call.md_output.list =
         << PageDict(FALSE, EmptyDict, TRUE, <<"a", NL, "b">>),
            PageDict(TRUE, [m \in {"page"} |-> 12], FALSE, <<>>) >>
    /\ fs.content = <<HeaderPrefix, "unknown", NL, NL, "a", NL, "b", NL, NL,
                      HeaderPrefix, "1", "2", NL, NL, NL, NL>>

\* C7: a run of main whose command line was accepted ends with exit code 0
\* when the PDF was parsed and the output saved, and otherwise with exit code
\* 1 and the error message on standard error, not on standard output.
C7_ExitCodeAndStderr ==
    (pc = "exited" /\ args.valid)
    => LET IsError(line) == line[1] = "An error occurred: "
       IN  IF ret.status = "ok"
           THEN exitCode = 0
           ELSE /\ exitCode = 1
                /\ \E i \in 1..Len(stderr) : IsError(stderr[i])
                /\ \A i \in 1..Len(stdout) : ~IsError(stdout[i])

====
